---------------------------- MODULE Spec2Model ----------------------------
(***************************************************************************)
(* Token-based distributed mutual exclusion (second Ricart-Agrawala        *)
(* algorithm) as implemented by class DistributedLock in                   *)
(* src/modules/Server/Lock/distributedLock.py.                             *)
(*                                                                         *)
(* Every peer owns one DistributedLock object.  A peer's client thread     *)
(* calls acquire / release / destroy; the remote operations request_token  *)
(* and obtain_token are synchronous calls through the peer registry's      *)
(* stubs, so a remote handler is modelled as a frame pushed on the calling *)
(* thread's stack, executing at the target peer in a handler thread of its *)
(* own.  Python exceptions unwind the whole stack (the class has no except *)
(* clause), running the finally clauses on the way.                        *)
(***************************************************************************)
EXTENDS Integers, Sequences, FiniteSets, TLC

\* ------------------------------------------------------------ constants

NO_TOKEN == 0
TOKEN_PRESENT == 1
TOKEN_HELD == 2

\* The peer identifiers of the system (owner.id of each peer).
Peers == {1, 2, 3}

\* Cap on the number of token requests issued in all, that is on the sum of
\* the logical clocks self.time (a bound of the model).
MaxRequests == 3

\* Cap on the number of peers that go away, by destroy() or by dying (a
\* bound of the model).
MaxDepartures == 1

\* Cap on the timestamp of a request_token message that arrives out of
\* order (a bound of the model).
MaxStamp == 2

\* Python's None for self.token: a mapping no token can equal, since 0 is
\* not a peer identifier.
None == [k \in {0} |-> 0]

\* Lock owners: an OS thread is <<t, k>>, the thread that runs frame k of
\* client thread t's call chain.  NoOwner: the lock is free.  Orphan: the
\* lock was left held by a handler thread that ended with an exception.
NoOwner == <<0, 0>>
Orphan == <<0, 1>>

VARIABLES
    state,      \* state[i]   : self.state of peer i
    token,      \* token[i]   : self.token of peer i (None or a mapping)
    request,    \* request[i] : self.request of peer i (a mapping)
    time,       \* time[i]    : self.time of peer i
    peers,      \* peers[i]   : keys of self.peer_list.peers, in dict order
    lock,       \* lock[i]    : self.peer_list.lock, [owner, count]
    reentrant,  \* whether peer_list.lock may be re-acquired by its owner
    phase,      \* phase[i]   : "new", "populated", "up", "left", "dead"
    founders,   \* the peers of the starting peer set
    stack,      \* stack[t]   : call chain of client thread t
    outcome,    \* outcome[t] : <<operation, result>> of t's last call
    envcall     \* <<operation, peer, pid, exception>> of the registry's
                \* last call that raised

vars == <<state, token, request, time, peers, lock, reentrant, phase,
          founders, stack, outcome, envcall>>

\* ------------------------------------------------------------- helpers

Min(S) == CHOOSE m \in S : \A x \in S : m <= x

RECURSIVE SortedSeq(_)
SortedSeq(S) == IF S = {} THEN <<>>
                ELSE <<Min(S)>> \o SortedSeq(S \ {Min(S)})

Range(s) == {s[k] : k \in DOMAIN s}

\* All orderings of the finite set S (the orders a dict can hold S in).
Perms(S) == {s \in [1..Cardinality(S) -> S] : Range(s) = S}

Remove(s, x) == SelectSeq(s, LAMBDA y : y # x)

\* Variant of sorted_pid without the sort: the keys in the map's own order.
sorted_pid_unsorted(i) == peers[i]

\* sorted(self.peer_list.peers.keys())
sorted_pid(i) == SortedSeq(Range(peers[i]))

\* _prepare: list(token.items()), the token as a list of (key, value) pairs.
_prepare(tok) ==
    LET keys == SortedSeq(DOMAIN tok)
    IN [k \in 1..Len(keys) |-> <<keys[k], tok[keys[k]]>>]

\* _unprepare: dict(pairs); a later pair of the same key wins.
_unprepare(pairs) ==
    [k \in {pairs[n][1] : n \in DOMAIN pairs} |->
        LET last == CHOOSE n \in DOMAIN pairs :
                       /\ pairs[n][1] = k
                       /\ \A m \in DOMAIN pairs : pairs[m][1] = k => m <= n
        IN pairs[last][2]]

\* d[k] = v on a dict d: insert or overwrite.
DictSet(d, k, v) == [x \in DOMAIN d \cup {k} |-> IF x = k THEN v ELSE d[x]]

\* del d[k]
DictDel(d, k) == [x \in DOMAIN d \ {k} |-> d[x]]

\* Variant of MaxMerge that stores the arriving timestamp as it is.
MaxMerge_overwrite(old, t) == t

\* max(self.request[pid], time)
MaxMerge(old, t) == IF old > t THEN old ELSE t

Reachable(p) == phase[p] \in {"populated", "up"}

\* The number of token requests issued so far.
RECURSIVE Sum(_, _)
Sum(f, S) == IF S = {} THEN 0
             ELSE LET x == CHOOSE y \in S : TRUE
                  IN f[x] + Sum(f, S \ {x})

Requests == Sum(time, Peers)

\* The number of peers that have gone away.
Departed == Cardinality({p \in Peers : phase[p] \in {"left", "dead"}})

\* ---------------------------------------------------------------- lock

\* peer_list.lock.acquire() by OS thread th at peer i does not block.
CanLock(i, th) ==
    \/ lock[i].owner = NoOwner
    \/ reentrant /\ lock[i].owner = th

Locked(lk, th) == [owner |-> th, count |-> lk.count + 1]

Unlocked(lk, n) ==
    IF lk.count - n <= 0 THEN [owner |-> NoOwner, count |-> 0]
    ELSE [owner |-> lk.owner, count |-> lk.count - n]

\* ------------------------------------------------------------- frames

Frame(op, at, pc, th, arg) ==
    [op |-> op, at |-> at, pc |-> pc, th |-> th, arg |-> arg]

Top(t) == stack[t][Len(stack[t])]

\* The frames whose code sits inside try/finally with the lock acquired,
\* waiting for a call they issued: release after its obtain_token call,
\* destroy after its release() or obtain_token call.
HeldPcs == {"r_sent", "d2", "d3"}

Running(t, op, pc) ==
    /\ stack[t] # <<>>
    /\ Top(t).op = op
    /\ Top(t).pc = pc

\* Pop every frame on top of s that only returns to its caller.
RECURSIVE Cascade(_)
Cascade(s) == IF s # <<>> /\ s[Len(s)].pc = "ret"
              THEN Cascade(SubSeq(s, 1, Len(s) - 1))
              ELSE s

\* s with its top frame replaced by f.
WithTop(s, f) == [s EXCEPT ![Len(s)] = f]

\* The top frame of call chain s, of thread t, returns normally.
Return(t, s) ==
    LET rest == Cascade(SubSeq(s, 1, Len(s) - 1))
    IN /\ stack' = [stack EXCEPT ![t] = rest]
       /\ outcome' = IF rest = <<>>
                     THEN [outcome EXCEPT ![t] = <<s[1].op, "ok">>]
                     ELSE outcome

\* The locks as they are once every finally clause on call chain s has
\* run, starting from lock function lk.
Unwound(s, lk) ==
    [i \in Peers |->
        Unlocked(lk[i], Cardinality({k \in DOMAIN s :
                    s[k].at = i /\ s[k].pc \in HeldPcs}))]

\* Exception exc propagates out of the whole call chain s of thread t.
Raise(t, s, exc, lk) ==
    /\ stack' = [stack EXCEPT ![t] = <<>>]
    /\ outcome' = [outcome EXCEPT ![t] = <<s[1].op, exc>>]
    /\ lock' = Unwound(s, lk)
    /\ phase' = IF s[1].op = "destroy"
                THEN [phase EXCEPT ![t] = "dead"]
                ELSE phase

\* ------------------------------------------------------------- startup

\* __init__ of every peer; the registry has populated the membership view
\* of each founder with the other founders (in any dict order).
InitState ==
    /\ founders \in {{1}, {1, 2}, {1, 2, 3}}
    /\ state = [i \in Peers |-> NO_TOKEN]
    /\ token = [i \in Peers |-> None]
    /\ request = [i \in Peers |-> <<>>]
    /\ time = [i \in Peers |-> 0]
    /\ peers \in [Peers -> UNION {Perms(S) : S \in SUBSET Peers}]
    /\ \A i \in Peers : IF i \in founders
                        THEN Range(peers[i]) = founders \ {i}
                        ELSE peers[i] = <<>>
    /\ lock = [i \in Peers |-> [owner |-> NoOwner, count |-> 0]]
    /\ phase = [i \in Peers |-> IF i \in founders THEN "populated" ELSE "new"]
    /\ stack = [t \in Peers |-> <<>>]
    /\ outcome = [t \in Peers |-> <<"none", "none">>]
    /\ envcall = <<"none", 0, 0, "none">>

\* peer_list.lock is re-entrant (destroy calls release() with it held).
Init ==
    /\ InitState
    /\ reentrant = TRUE

\* A new peer joins: the registry fills its membership view with the peers
\* present.  Identifiers are handed out in increasing order, and a peer
\* joins once the peers before it have finished starting.
Populate(i) ==
    /\ phase[i] = "new"
    /\ \A j \in Peers : j < i => phase[j] # "new"
    /\ \A j \in Peers : phase[j] # "populated"
    /\ \E view \in Perms({j \in Peers : Reachable(j)}) :
          peers' = [peers EXCEPT ![i] = view]
    /\ phase' = [phase EXCEPT ![i] = "populated"]
    /\ UNCHANGED envcall
    /\ UNCHANGED <<state, token, request, time, lock, reentrant, founders,
                   stack, outcome>>

\* The result of initialize's decision: this peer is the initial custodian.
InitialCustodian(i) ==
    Len(sorted_pid(i)) = 0 \/ sorted_pid(i)[1] >= i

\* initialize(): runs wholly under the lock.
initialize(i) ==
    /\ phase[i] = "populated"
    /\ \A j \in Range(peers[i]) : Reachable(j) => i \in Range(peers[j])
    /\ lock[i].owner = NoOwner
    /\ IF InitialCustodian(i)
       THEN /\ state' = [state EXCEPT ![i] = TOKEN_PRESENT]
            /\ token' = [token EXCEPT ![i] = DictSet(<<>>, i, 0)]
       ELSE /\ state' = [state EXCEPT ![i] = NO_TOKEN]
            /\ UNCHANGED token
    /\ request' = [request EXCEPT ![i] =
                       [p \in DOMAIN request[i] \cup Range(peers[i]) |->
                           IF p \in Range(peers[i]) THEN 0
                           ELSE request[i][p]]]
    /\ phase' = [phase EXCEPT ![i] = "up"]
    /\ UNCHANGED envcall
    /\ UNCHANGED <<time, peers, lock, reentrant, founders, stack, outcome>>

\* register_peer(pid) at peer j, called by the registry together with its
\* own insertion of pid into the membership map.
register_peer(j, pid) ==
    /\ phase[pid] = "populated"
    /\ Reachable(j)
    /\ j \in Range(peers[pid])
    /\ pid \notin Range(peers[j])
    /\ lock[j].owner = NoOwner
    /\ peers' = [peers EXCEPT ![j] = Append(peers[j], pid)]
    /\ IF state[j] \in {TOKEN_HELD, TOKEN_PRESENT} /\ token[j] = None
       THEN \* self.token[pid] = 0 on None: TypeError, request not written
            /\ envcall' = <<"register_peer", j, pid, "TypeError">>
            /\ UNCHANGED <<token, request>>
       ELSE /\ token' = IF state[j] \in {TOKEN_HELD, TOKEN_PRESENT}
                        THEN [token EXCEPT ![j] = DictSet(token[j], pid, 0)]
                        ELSE token
            /\ request' = [request EXCEPT ![j] = DictSet(request[j], pid, 0)]
            /\ UNCHANGED envcall
    /\ UNCHANGED <<state, time, lock, reentrant, phase, founders, stack,
                   outcome>>

\* unregister_peer(pid) at peer j, called by the registry together with its
\* own removal of pid from the membership map, after pid has left.
unregister_peer(j, pid) ==
    /\ phase[pid] = "left"
    /\ Reachable(j)
    /\ pid \in Range(peers[j])
    /\ lock[j].owner = NoOwner
    /\ peers' = [peers EXCEPT ![j] = Remove(peers[j], pid)]
    /\ IF state[j] \in {TOKEN_HELD, TOKEN_PRESENT} /\ token[j] = None
       THEN /\ envcall' = <<"unregister_peer", j, pid, "TypeError">>
            /\ UNCHANGED <<token, request>>
       ELSE IF state[j] \in {TOKEN_HELD, TOKEN_PRESENT}
               /\ pid \notin DOMAIN token[j]
       THEN \* del self.token[pid]: KeyError, request entry not deleted
            /\ envcall' = <<"unregister_peer", j, pid, "KeyError">>
            /\ UNCHANGED <<token, request>>
       ELSE /\ token' = IF state[j] \in {TOKEN_HELD, TOKEN_PRESENT}
                        THEN [token EXCEPT ![j] = DictDel(token[j], pid)]
                        ELSE token
            /\ IF pid \in DOMAIN request[j]
               THEN /\ request' = [request EXCEPT
                                      ![j] = DictDel(request[j], pid)]
                    /\ UNCHANGED envcall
               ELSE /\ UNCHANGED request
                    /\ envcall' = <<"unregister_peer", j, pid, "KeyError">>
    /\ UNCHANGED <<state, time, lock, reentrant, phase, founders, stack,
                   outcome>>

\* The object of peer c is gone with its process: its fields are as
\* __init__ sets them and its membership view is empty (the clock is kept,
\* as the count of the requests c has issued).
Discarded(c) ==
    /\ state' = [state EXCEPT ![c] = NO_TOKEN]
    /\ token' = [token EXCEPT ![c] = None]
    /\ request' = [request EXCEPT ![c] = <<>>]
    /\ peers' = [peers EXCEPT ![c] = <<>>]
    /\ UNCHANGED time

\* An unexpected death of a peer that does not have the token: it stops
\* answering, and nobody is told.
Die(c) ==
    /\ phase[c] = "up"
    /\ Departed < MaxDepartures
    /\ stack[c] = <<>>
    /\ state[c] = NO_TOKEN
    /\ lock[c].owner = NoOwner
    /\ \A t \in Peers : \A k \in DOMAIN stack[t] : stack[t][k].at # c
    /\ phase' = [phase EXCEPT ![c] = "dead"]
    /\ Discarded(c)
    /\ outcome' = [outcome EXCEPT ![c] = <<"none", "none">>]
    /\ UNCHANGED <<lock, reentrant, founders, stack, envcall>>

\* -------------------------------------------------------------- release

\* The order in which release() examines the peers: the dict order of
\* peer_list.peers, those above self first, then those below.
ScanOrder(i) ==
    SelectSeq(peers[i], LAMBDA pid : pid > i)
        \o SelectSeq(peers[i], LAMBDA pid : pid < i)

\* The test  self.request[pid] > self.token[pid]  of lines 187 and 197.
Eligible(i, pid) == request[i][pid] > token[i][pid]

\* release(), lines 185-202: what the two loops end with, from candidate k
\* of ScanOrder on: <<"send", pid>>, <<"none", 0>>, or the exception that
\* evaluating the test raises.
RECURSIVE Scan(_, _)
Scan(i, k) ==
    IF k > Len(ScanOrder(i)) THEN <<"none", 0>>
    ELSE LET pid == ScanOrder(i)[k]
         IN IF pid \notin DOMAIN request[i] THEN <<"KeyError", pid>>
            ELSE IF token[i] = None THEN <<"TypeError", pid>>
            ELSE IF pid \notin DOMAIN token[i] THEN <<"KeyError", pid>>
            ELSE IF Eligible(i, pid) THEN <<"send", pid>>
            ELSE Scan(i, k + 1)

\* release(), lines 180-190 / 194-200, run by thread t whose call chain s
\* has the release frame on top: take the lock, set TOKEN_PRESENT, scan,
\* and on the first eligible peer set NO_TOKEN, stamp the token and issue
\* obtain_token with the lock still held.
release(t, s) ==
    LET f == s[Len(s)]
        i == f.at
        res == Scan(i, 1)
    IN /\ CanLock(i, f.th)
       /\ IF res[1] = "none"
          THEN /\ state' = [state EXCEPT ![i] = TOKEN_PRESENT]
               /\ Return(t, s)
               /\ UNCHANGED <<token, lock, phase>>
          ELSE IF res[1] = "send"
          THEN /\ state' = [state EXCEPT ![i] = NO_TOKEN]
               /\ token' = [token EXCEPT ![i] = DictSet(token[i], i, time[i])]
               /\ IF Reachable(res[2])
                  THEN /\ stack' = [stack EXCEPT ![t] =
                            Append(WithTop(s, [f EXCEPT !.pc = "r_sent"]),
                                   Frame("obtain_token", res[2], "o1",
                                         <<t, Len(s) + 1>>,
                                         _prepare(token'[i])))]
                       /\ lock' = [lock EXCEPT ![i] = Locked(lock[i], f.th)]
                       /\ UNCHANGED <<phase, outcome>>
                  ELSE Raise(t, s, "Unreachable", lock)
          ELSE /\ state' = [state EXCEPT ![i] = TOKEN_PRESENT]
               /\ Raise(t, s, res[1], lock)
               /\ UNCHANGED token

\* The client calls release() after its acquire() has returned.
release_call(t) ==
    /\ phase[t] = "up"
    /\ stack[t] = <<>>
    /\ outcome[t] = <<"acquire", "ok">>
    /\ release(t, <<Frame("release", t, "r1", <<t, 1>>, <<0, 0>>)>>)
    /\ UNCHANGED <<request, time, peers, reentrant, founders, envcall>>

\* release() called by request_token or by destroy gets to the lock.
release_scan(t) ==
    /\ Running(t, "release", "r1")
    /\ release(t, stack[t])
    /\ UNCHANGED <<request, time, peers, reentrant, founders, envcall>>

\* release(), lines 191-192 / 201-204: obtain_token has returned.
release_sent(t) ==
    /\ Running(t, "release", "r_sent")
    /\ token' = [token EXCEPT ![Top(t).at] = None]
    /\ lock' = [lock EXCEPT ![Top(t).at] = Unlocked(lock[Top(t).at], 1)]
    /\ Return(t, stack[t])
    /\ UNCHANGED <<state, request, time, peers, reentrant, phase, founders,
                   envcall>>

\* ------------------------------------------------------ remote handlers

\* request_token(time, pid), lines 210-219, run for thread t whose call
\* chain s has the handler's frame on top.  The lock is taken outside any
\* try: a KeyError on self.request[pid] leaves it held.  When the state is
\* TOKEN_PRESENT the lock is released and release() is called.
request_token(t, s) ==
    LET f == s[Len(s)]
        j == f.at
        tm == f.arg[1]
        pid == f.arg[2]
    IN /\ CanLock(j, f.th)
       /\ IF pid \notin DOMAIN request[j]
          THEN /\ Raise(t, s, "KeyError",
                        [lock EXCEPT ![j] = [owner |-> Orphan, count |-> 1]])
               /\ UNCHANGED request
          ELSE /\ request' = [request EXCEPT ![j][pid] =
                                   MaxMerge(request[j][pid], tm)]
               /\ IF state[j] = TOKEN_PRESENT
                  THEN /\ stack' = [stack EXCEPT ![t] =
                            Append(WithTop(s, [f EXCEPT !.pc = "ret"]),
                                   Frame("release", j, "r1", f.th, <<0, 0>>))]
                       /\ UNCHANGED outcome
                  ELSE Return(t, s)
               /\ UNCHANGED <<lock, phase>>

\* A request_token(tm, t) message of peer t arrives at peer j, with any
\* timestamp tm: the transport may deliver the requests of a peer late,
\* twice, or in any order.  The messages arrive one at a time, each after
\* the call before it has returned.
request_token_arrives(t, j, tm) ==
    /\ phase[t] = "up"
    /\ \A u \in Peers : stack[u] = <<>>
    /\ j \in Range(peers[t])
    /\ Reachable(j)
    /\ request_token(t, <<Frame("request_token", j, "q1", <<t, 1>>,
                                <<tm, t>>)>>)
    /\ UNCHANGED <<state, token, time, peers, reentrant, founders, envcall>>

\* obtain_token(token) at peer Top(t).at, lines 227-233.
obtain_token(t) ==
    /\ Running(t, "obtain_token", "o1")
    /\ CanLock(Top(t).at, Top(t).th)
    /\ token' = [token EXCEPT ![Top(t).at] = _unprepare(Top(t).arg)]
    /\ state' = [state EXCEPT ![Top(t).at] = TOKEN_PRESENT]
    /\ Return(t, stack[t])
    /\ UNCHANGED <<request, time, peers, lock, reentrant, phase, founders,
                   envcall>>

\* -------------------------------------------------------------- acquire

\* acquire(), lines 160-163 and 169-170: the first guarded section.
acquire_call(t) ==
    /\ phase[t] = "up"
    /\ stack[t] = <<>>
    /\ outcome[t] # <<"acquire", "ok">>
    /\ CanLock(t, <<t, 1>>)
    /\ IF state[t] = NO_TOKEN
       THEN /\ Requests < MaxRequests
            /\ time' = [time EXCEPT ![t] = time[t] + 1]
            /\ stack' = [stack EXCEPT ![t] = <<Frame("acquire", t, "bcast",
                                   <<t, 1>>, <<1, Len(peers[t])>>)>>]
       ELSE /\ UNCHANGED time
            /\ stack' = [stack EXCEPT ![t] = <<Frame("acquire", t, "a_set",
                                   <<t, 1>>, <<0, 0>>)>>]
    /\ UNCHANGED <<state, token, request, peers, lock, reentrant, phase,
                   founders, outcome, envcall>>

\* acquire(), lines 164-165: one turn of the broadcast loop over the dict
\* peer_list.peers, read without the lock.  The dict iterator raises
\* RuntimeError when the dict has changed size; a call to a peer that is
\* gone raises at the call site; otherwise the turn is the call of
\* request_token(self.time, self.owner.id) at the peer, whose handler
\* starts when it gets that peer's lock.
acquire_bcast(t) ==
    /\ Running(t, "acquire", "bcast")
    /\ LET idx == Top(t).arg[1]
           n0 == Top(t).arg[2]
       IN IF Len(peers[t]) # n0
          THEN /\ Raise(t, stack[t], "RuntimeError", lock)
               /\ UNCHANGED request
          ELSE IF idx > n0
          THEN /\ stack' = [stack EXCEPT ![t] =
                               WithTop(stack[t], [Top(t) EXCEPT !.pc = "spin"])]
               /\ UNCHANGED <<request, lock, phase, outcome>>
          ELSE IF ~Reachable(peers[t][idx])
          THEN /\ Raise(t, stack[t], "Unreachable", lock)
               /\ UNCHANGED request
          ELSE request_token(t,
                    Append(WithTop(stack[t],
                                   [Top(t) EXCEPT !.arg = <<idx + 1, n0>>]),
                           Frame("request_token", peers[t][idx], "q1",
                                 <<t, Len(stack[t]) + 1>>, <<time[t], t>>)))
    /\ UNCHANGED <<state, token, time, peers, reentrant, founders, envcall>>

\* acquire(), lines 167-168: the busy wait sees self.state != NO_TOKEN.
acquire_spin(t) ==
    /\ Running(t, "acquire", "spin")
    /\ state[t] # NO_TOKEN
    /\ stack' = [stack EXCEPT ![t] =
                    WithTop(stack[t], [Top(t) EXCEPT !.pc = "a_set"])]
    /\ UNCHANGED <<state, token, request, time, peers, lock, reentrant,
                   phase, founders, outcome, envcall>>

\* acquire(), lines 172-174: the second guarded section.
acquire_set(t) ==
    /\ Running(t, "acquire", "a_set")
    /\ CanLock(t, Top(t).th)
    /\ state' = [state EXCEPT ![t] = TOKEN_HELD]
    /\ Return(t, stack[t])
    /\ UNCHANGED <<token, request, time, peers, lock, reentrant, phase,
                   founders, envcall>>

\* -------------------------------------------------------------- destroy

\* destroy(), lines 115-119: with the lock held, call self.release() when
\* this peer has the token and peers remain.
destroy_call(t) ==
    /\ phase[t] = "up"
    /\ Departed < MaxDepartures
    /\ \A u \in Peers : stack[u] # <<>> => stack[u][1].op # "destroy"
    /\ stack[t] = <<>>
    /\ CanLock(t, <<t, 1>>)
    /\ IF state[t] \in {TOKEN_HELD, TOKEN_PRESENT} /\ Len(peers[t]) > 0
       THEN /\ lock' = [lock EXCEPT ![t] = Locked(lock[t], <<t, 1>>)]
            /\ stack' = [stack EXCEPT ![t] =
                  <<Frame("destroy", t, "d2", <<t, 1>>, <<0, 0>>),
                    Frame("release", t, "r1", <<t, 1>>, <<0, 0>>)>>]
            /\ UNCHANGED <<phase, outcome>>
            /\ UNCHANGED <<state, token, request, time, peers>>
       ELSE /\ outcome' = [outcome EXCEPT ![t] = <<"destroy", "ok">>]
            /\ phase' = [phase EXCEPT ![t] = "left"]
            /\ Discarded(t)
            /\ UNCHANGED <<lock, stack>>
    /\ UNCHANGED <<reentrant, founders, envcall>>

\* destroy(), lines 120-122: release() has returned; when the token is
\* still here, hand it to the first peer of the membership map.
destroy_handoff(t) ==
    /\ Running(t, "destroy", "d2")
    /\ IF state[t] # NO_TOKEN
       THEN IF Reachable(peers[t][1])
            THEN /\ stack' = [stack EXCEPT ![t] =
                       Append(WithTop(stack[t], [Top(t) EXCEPT !.pc = "d3"]),
                              Frame("obtain_token", peers[t][1], "o1",
                                    <<t, Len(stack[t]) + 1>>,
                                    _prepare(token[t])))]
                 /\ UNCHANGED <<lock, phase, outcome>>
                 /\ UNCHANGED <<state, token, request, time, peers>>
            ELSE /\ Raise(t, stack[t], "Unreachable", lock)
                 /\ UNCHANGED <<state, token, request, time, peers>>
       ELSE /\ lock' = [lock EXCEPT ![t] = Unlocked(lock[t], 1)]
            /\ stack' = [stack EXCEPT ![t] = <<>>]
            /\ outcome' = [outcome EXCEPT ![t] = <<"destroy", "ok">>]
            /\ phase' = [phase EXCEPT ![t] = "left"]
            /\ Discarded(t)
    /\ UNCHANGED <<reentrant, founders, envcall>>

\* destroy(), lines 124-126: the forced obtain_token has returned.
destroy_done(t) ==
    /\ Running(t, "destroy", "d3")
    /\ lock' = [lock EXCEPT ![t] = Unlocked(lock[t], 1)]
    /\ stack' = [stack EXCEPT ![t] = <<>>]
    /\ outcome' = [outcome EXCEPT ![t] = <<"destroy", "ok">>]
    /\ phase' = [phase EXCEPT ![t] = "left"]
    /\ Discarded(t)
    /\ UNCHANGED <<reentrant, founders, envcall>>

\* ------------------------------------------------------- specification

\* Startup, joins and the lock protocol: no peer goes away.
Next ==
    \/ \E i \in Peers : Populate(i)
    \/ \E i \in Peers : initialize(i)
    \/ \E j \in Peers, pid \in Peers : register_peer(j, pid)
    \/ \E t \in Peers : acquire_call(t)
    \/ \E t \in Peers : acquire_bcast(t)
    \/ \E t \in Peers : acquire_spin(t)
    \/ \E t \in Peers : acquire_set(t)
    \/ \E t \in Peers : release_call(t)
    \/ \E t \in Peers : release_scan(t)
    \/ \E t \in Peers : release_sent(t)
    \/ \E t \in Peers : obtain_token(t)

Spec == Init /\ [][Next]_vars

\* The same with departures: destroy(), unregister_peer() and deaths.
NextChurn ==
    \/ \E i \in Peers : Populate(i)
    \/ \E i \in Peers : initialize(i)
    \/ \E j \in Peers, pid \in Peers : register_peer(j, pid)
    \/ \E j \in Peers, pid \in Peers : unregister_peer(j, pid)
    \/ \E c \in Peers : Die(c)
    \/ \E t \in Peers : acquire_call(t)
    \/ \E t \in Peers : acquire_bcast(t)
    \/ \E t \in Peers : acquire_spin(t)
    \/ \E t \in Peers : acquire_set(t)
    \/ \E t \in Peers : release_call(t)
    \/ \E t \in Peers : release_scan(t)
    \/ \E t \in Peers : release_sent(t)
    \/ \E t \in Peers : obtain_token(t)
    \/ \E t \in Peers : destroy_call(t)
    \/ \E t \in Peers : destroy_handoff(t)
    \/ \E t \in Peers : destroy_done(t)

SpecChurn == Init /\ [][NextChurn]_vars

\* The handlers of request_token and obtain_token in a peer set grown by
\* joins from one peer, under request messages of any timestamp arriving in
\* any order.
NextArrival ==
    \/ \E i \in Peers : Populate(i)
    \/ \E i \in Peers : initialize(i)
    \/ \E j \in Peers, pid \in Peers : register_peer(j, pid)
    \/ \E t \in Peers, j \in Peers, tm \in 1..MaxStamp :
          request_token_arrives(t, j, tm)
    \/ \E t \in Peers : release_scan(t)
    \/ \E t \in Peers : release_sent(t)
    \/ \E t \in Peers : obtain_token(t)

\* The starting set is the single peer 1; the others join.
InitArrival ==
    /\ Init
    /\ founders = {1}

SpecArrival == InitArrival /\ [][NextArrival]_vars

\* The same with either kind of guard, in a peer set grown by joins from
\* peer 1: peer_list.lock is a re-entrant lock or a plain mutual-exclusion
\* lock.
InitAnyGuard ==
    /\ InitState
    /\ founders = {1}
    /\ reentrant \in BOOLEAN

SpecAnyGuard == InitAnyGuard /\ [][NextChurn]_vars

\* A static peer set: the peers start and join before the lock is first
\* used, and the membership does not change afterwards.
Unused ==
    /\ Requests = 0
    /\ \A p \in Peers : stack[p] = <<>> /\ outcome[p][1] = "none"

Settled == \A p \in Peers : phase[p] \in {"new", "up"}

Populate_static(i) == Unused /\ Populate(i)

initialize_static(i) == Unused /\ initialize(i)

register_peer_static(j, pid) == Unused /\ register_peer(j, pid)

acquire_call_static(t) == Settled /\ acquire_call(t)

NextStatic ==
    \/ \E i \in Peers : Populate_static(i)
    \/ \E i \in Peers : initialize_static(i)
    \/ \E j \in Peers, pid \in Peers : register_peer_static(j, pid)
    \/ \E t \in Peers : acquire_call_static(t)
    \/ \E t \in Peers : acquire_bcast(t)
    \/ \E t \in Peers : acquire_spin(t)
    \/ \E t \in Peers : acquire_set(t)
    \/ \E t \in Peers : release_call(t)
    \/ \E t \in Peers : release_scan(t)
    \/ \E t \in Peers : release_sent(t)
    \/ \E t \in Peers : obtain_token(t)

SpecStatic == Init /\ [][NextStatic]_vars

\* --------------------------------------------------------------- claims

Held == {p \in Peers : state[p] = TOKEN_HELD}

Custodians == {p \in Peers : state[p] # NO_TOKEN}

\* An obtain_token call is in flight: issued, and its handler has not run.
InFlight == \E t \in Peers : \E k \in DOMAIN stack[t] :
                stack[t][k].op = "obtain_token"

\* C1. Mutual exclusion: in every reachable state of the protocol with no
\* peer going away, at most one peer has state TOKEN_HELD.
C1_MutualExclusion == Cardinality(Held) <= 1

\* C2. Token conservation: once the initial custodian has initialized, the
\* number of peers whose state is not NO_TOKEN is exactly 1, except while an
\* obtain_token call is in flight.
C2_TokenConservation ==
    (phase[Min(founders)] = "up" /\ ~InFlight) => Cardinality(Custodians) = 1

\* Peer a has broadcast its request to every peer and waits for the token.
Waiting(a) == Running(a, "acquire", "spin") /\ state[a] = NO_TOKEN

\* Peer c's token counts peer a's latest recorded request as served: the
\* scan of release at c passes a over.
Served(a, c) ==
    /\ token[c] # None
    /\ a \in DOMAIN request[c]
    /\ a \in DOMAIN token[c]
    /\ request[c][a] <= token[c][a]

\* C3. Liveness of acquire, in the form a finite run refutes: while a peer
\* that has broadcast its request waits for the token (its state is still
\* NO_TOKEN), its request stays unserved at every peer that has the token,
\* so that a later release hands the token on to it.
C3_RequestVisibleUntilHeld ==
    \A a \in Peers : Waiting(a) => \A c \in Custodians : ~Served(a, c)

\* C4. acquire returns only with the token here: in the step in which
\* acquire sets TOKEN_HELD and returns, the peer's token is not None and no
\* other peer has a state other than NO_TOKEN.
C4_AcquireReturnsWithToken ==
    [][\A t \in Peers : acquire_set(t) =>
          /\ token'[t] # None
          /\ \A p \in Peers \ {t} : state'[p] = NO_TOKEN]_vars

\* Every peer of the static starting set has run initialize and nothing else
\* has been called yet: no request was made and no operation has run.
StartedStatic ==
    /\ \A p \in founders : phase[p] = "up"
    /\ \A p \in Peers \ founders : phase[p] = "new"
    /\ \A p \in Peers : stack[p] = <<>> /\ outcome[p][1] = "none"
    /\ Requests = 0

\* C5. Initial-custodian uniqueness: after all peers of a non-empty static
\* peer set have run initialize, the peer with the minimum identifier has
\* state TOKEN_PRESENT, and every other peer has state NO_TOKEN and token
\* None, so exactly one peer has state TOKEN_PRESENT.
C5_InitialCustodianUnique ==
    StartedStatic =>
        /\ state[Min(founders)] = TOKEN_PRESENT
        /\ \A p \in founders \ {Min(founders)} :
              state[p] = NO_TOKEN /\ token[p] = None
        /\ Cardinality({p \in founders : state[p] = TOKEN_PRESENT}) = 1

\* The three peers of a static set have all run initialize.
C5_Witness ==
    /\ founders = {1, 2, 3}
    /\ StartedStatic
    /\ state[1] = TOKEN_PRESENT

\* C6. Monotone request vector: at every peer i and for every identifier p,
\* no step decreases request[i][p], whatever timestamps the request_token
\* messages carry and whatever order they arrive in.
C6_RequestMonotone ==
    [][\A i \in Peers : \A p \in DOMAIN request[i] \cap DOMAIN request'[i] :
          request'[i][p] >= request[i][p]]_vars

\* A request_token handler has merged a timestamp older than the one the
\* peer has recorded for the sender.
C6_Witness ==
    \E t \in Peers : \E k \in DOMAIN stack[t] :
        /\ stack[t][k].op = "request_token"
        /\ stack[t][k].pc = "ret"
        /\ stack[t][k].arg[2] \in DOMAIN request[stack[t][k].at]
        /\ stack[t][k].arg[1] < request[stack[t][k].at][stack[t][k].arg[2]]

\* The peers of i's membership map that satisfy the handoff condition
\* request[i][p] > token[i][p].
EligibleSet(i) ==
    {p \in Range(peers[i]) :
        /\ token[i] # None
        /\ p \in DOMAIN request[i]
        /\ p \in DOMAIN token[i]
        /\ Eligible(i, p)}

\* The peer the two ascending passes choose: the smallest eligible
\* identifier above i if there is one, otherwise the smallest below i.
HandoffTarget(i) ==
    IF \E p \in EligibleSet(i) : p > i
    THEN Min({p \in EligibleSet(i) : p > i})
    ELSE Min(EligibleSet(i))

\* C7. Deterministic handoff order: whenever release at a peer has sent the
\* token and waits for obtain_token to return, the peer it sent the token
\* to is the smallest eligible identifier greater than self if there is
\* one, otherwise the smallest eligible identifier less than self, whatever
\* order the membership map holds the peers in.
C7_HandoffOrder ==
    \A t \in Peers : \A k \in DOMAIN stack[t] :
        (/\ stack[t][k].op = "release"
         /\ stack[t][k].pc = "r_sent"
         /\ k < Len(stack[t]))
        => stack[t][k + 1].at = HandoffTarget(stack[t][k].at)

\* C8. Three-peer scenario: peers 1, 2 and 3 form the static starting set
\* and have all run initialize; peer 3 is the first to call acquire.  In
\* the step in which the release() called by peer 1's request_token handler
\* scans the peers, it sends the token to peer 3 with an entry for each of
\* the peers 1, 2 and 3, and raises no error.
C8_ThreePeerScenario ==
    [][(/\ founders = Peers
        /\ \A p \in Peers : phase[p] = "up"
        /\ Requests = 1
        /\ time[3] = 1
        /\ release_scan(3)
        /\ Top(3).at = 1)
       => /\ stack'[3] # <<>>
          /\ stack'[3][Len(stack'[3])].op = "obtain_token"
          /\ stack'[3][Len(stack'[3])].at = 3
          /\ {stack'[3][Len(stack'[3])].arg[n][1] :
                 n \in DOMAIN stack'[3][Len(stack'[3])].arg} = Peers]_vars

\* C9. Departure with the token: in the step in which a destroy() that
\* found the token here and a non-empty peer set comes to its end, it ends
\* without an error and exactly one of the other peers has a state other
\* than NO_TOKEN.
C9_DestroyHandsOver ==
    [][\A t \in Peers :
          (/\ stack[t] # <<>>
           /\ stack[t][1].op = "destroy"
           /\ stack'[t] = <<>>)
          => /\ outcome'[t] = <<"destroy", "ok">>
             /\ Cardinality({p \in Peers \ {t} : state'[p] # NO_TOKEN}) = 1]_vars

\* C10. Dead-peer tolerance of acquire: in the step in which the broadcast
\* of acquire calls request_token at a peer that is unreachable, acquire
\* goes on (the failure is caught) and the peer is removed from the
\* caller's membership map and from its request mapping.
C10_AcquireToleratesDeadPeer ==
    [][\A t \in Peers :
          (/\ acquire_bcast(t)
           /\ Len(peers[t]) = Top(t).arg[2]
           /\ Top(t).arg[1] <= Len(peers[t])
           /\ ~Reachable(peers[t][Top(t).arg[1]]))
          => /\ stack'[t] # <<>>
             /\ peers[t][Top(t).arg[1]] \notin Range(peers'[t])
             /\ peers[t][Top(t).arg[1]] \notin DOMAIN request'[t]]_vars

\* C11. release() in state NO_TOKEN: in the step in which a release() that
\* finds the state NO_TOKEN runs, called by the client or by a request_token
\* handler, the state stays NO_TOKEN, the token stays None, and the call
\* ends with an error reported to its caller.
C11_ReleaseWithoutToken ==
    [][\A t \in Peers :
          /\ (release_call(t) /\ state[t] = NO_TOKEN)
             => /\ state'[t] = NO_TOKEN
                /\ token'[t] = None
                /\ outcome'[t][1] = "release"
                /\ outcome'[t][2] # "ok"
          /\ (release_scan(t) /\ state[Top(t).at] = NO_TOKEN)
             => /\ state'[Top(t).at] = NO_TOKEN
                /\ token'[Top(t).at] = None
                /\ stack'[t] = <<>>
                /\ outcome'[t][2] # "ok"]_vars

\* Thread t's call chain ends in this step with the error of a remote call
\* that could not be delivered.
SendFailed(t) ==
    /\ stack'[t] = <<>>
    /\ outcome'[t][2] = "Unreachable"

\* C12. A failed send does not change the state: in the step in which the
\* obtain_token call issued by release() or by destroy() fails, the sending
\* peer still has the token (its state is not NO_TOKEN) and its token is as
\* it was before the step.
C12_FailedSendKeepsToken ==
    [][\A t \in Peers :
          /\ (release_call(t) /\ SendFailed(t))
             => state'[t] # NO_TOKEN /\ token'[t] = token[t]
          /\ (release_scan(t) /\ SendFailed(t))
             => /\ state'[Top(t).at] # NO_TOKEN
                /\ token'[Top(t).at] = token[Top(t).at]
          /\ (destroy_handoff(t) /\ SendFailed(t))
             => state'[t] # NO_TOKEN /\ token'[t] = token[t]]_vars

\* No call is executing at peer i.
Quiet(i) == \A t \in Peers : \A k \in DOMAIN stack[t] : stack[t][k].at # i

\* C13. No error leaves the guard held: whenever no operation is executing
\* at a peer, every operation there having returned or ended with an error,
\* the peer's lock is free.
C13_NoErrorLeavesGuardHeld ==
    \A i \in Peers : Quiet(i) => lock[i].owner = NoOwner

\* C14. The guard is never held while a remote call is in flight: whenever
\* a frame of a call chain is a request_token or obtain_token call that has
\* not returned, the lock of the calling peer is not held by the thread
\* that made the call.
C14_NoGuardDuringRemoteCall ==
    \A t \in Peers : \A k \in DOMAIN stack[t] :
        (k > 1 /\ stack[t][k].op \in {"request_token", "obtain_token"})
        => lock[stack[t][k - 1].at].owner # stack[t][k - 1].th

\* The membership view of peer i together with its own identifier.
ViewWithSelf(i) == Range(peers[i]) \cup {i}

\* C15. Key-set invariant: at every peer that has run initialize and at
\* which no operation is executing, whenever the token is not None its key
\* set is the membership view together with the peer's own identifier, and
\* so is the key set of the request mapping (the peer's own identifier
\* counted in).
C15_KeySets ==
    \A i \in Peers :
        (phase[i] = "up" /\ Quiet(i) /\ token[i] # None)
        => /\ DOMAIN token[i] = ViewWithSelf(i)
           /\ DOMAIN request[i] \cup {i} = ViewWithSelf(i)

\* The client of peer p is in its critical section: its acquire() has
\* returned and it has not called release() yet.
ClientHolds(p) ==
    /\ outcome[p] = <<"acquire", "ok">>
    /\ stack[p] = <<>>

\* A release() running at peer p has issued obtain_token.
Sending(p) ==
    \E t \in Peers : \E k \in DOMAIN stack[t] :
        /\ stack[t][k].op = "release"
        /\ stack[t][k].at = p
        /\ stack[t][k].pc = "r_sent"

\* C16. A held token is never forwarded by request_token: from the return
\* of the client's acquire() until the client calls release(), the peer's
\* state is TOKEN_HELD and no release() at the peer has issued obtain_token.
C16_HeldTokenNotForwarded ==
    \A p \in Peers :
        ClientHolds(p) => state[p] = TOKEN_HELD /\ ~Sending(p)

\* Thread t's call chain ends in this step with an error.
EndsWithError(t) ==
    /\ stack'[t] = <<>>
    /\ outcome'[t][2] # "ok"

\* C17. Handoff is serialized: when a request_token handler saw the state
\* TOKEN_PRESENT and its release() runs after another code path has handed
\* the token on (the token here is None), then in that step the handler's
\* release() issues no obtain_token, leaves the state NO_TOKEN and the token
\* None, and raises no error.
C17_HandoffSerialized ==
    [][\A t \in Peers :
          (release_scan(t) /\ token[Top(t).at] = None)
          => /\ state'[Top(t).at] = NO_TOKEN
             /\ token'[Top(t).at] = None
             /\ ~EndsWithError(t)
             /\ \A k \in DOMAIN stack'[t] :
                   stack'[t][k].op # "obtain_token"]_vars

\* C18. unregister_peer(pid) at a peer whose request mapping has an entry
\* for pid: in the step of the call the entry is removed from the request
\* mapping, the token, if the peer has one, has no entry for pid afterwards,
\* and the call raises no error.
C18_UnregisterRemovesRequest ==
    [][\A j \in Peers : \A pid \in Peers :
          (unregister_peer(j, pid) /\ pid \in DOMAIN request[j])
          => /\ pid \notin DOMAIN request'[j]
             /\ token'[j] # None => pid \notin DOMAIN token'[j]
             /\ envcall' = envcall]_vars

\* C19. destroy() terminates with a mutually-exclusive guard: when the
\* lock is not re-entrant, no release() waits for a lock that the thread
\* calling it holds already, as the release() called by destroy() would.
C19_DestroyDoesNotSelfBlock ==
    ~reentrant =>
        \A t \in Peers :
            Running(t, "release", "r1")
            => lock[Top(t).at].owner # Top(t).th

\* Peer q has an acquire() in progress that has issued its request and has
\* not set TOKEN_HELD yet.
Acquiring(q) ==
    /\ stack[q] # <<>>
    /\ stack[q][1].op = "acquire"
    /\ stack[q][1].pc \in {"bcast", "spin", "a_set"}

\* C20. No spurious handoff: with a static peer set, whenever a release()
\* has sent the token and waits for obtain_token to return, the peer the
\* token was sent to has an acquire() in progress.
C20_NoSpuriousHandoff ==
    \A t \in Peers : \A k \in DOMAIN stack[t] :
        (/\ stack[t][k].op = "release"
         /\ stack[t][k].pc = "r_sent"
         /\ k < Len(stack[t]))
        => Acquiring(stack[t][k + 1].at)

=============================================================================
